---- MODULE Spec2Model ----
(***************************************************************************)
(* Model of the auto_verify_nft program (programs/mint-verify/src/lib.rs). *)
(*                                                                         *)
(* The committed ledger state is four account tables: token mints, token   *)
(* holding accounts, metadata records and master-edition records.  Every   *)
(* instruction runs as one transaction: account validation (Anchor         *)
(* constraints, in field order), then the handler body, one CPI after the  *)
(* other, each `?` aborting at the first error.  The runtime commits the   *)
(* working state only when the instruction returns Ok.                     *)
(*                                                                         *)
(* Public keys are sequences of integers: wallets <<0,i>>, mint keypairs   *)
(* <<2,i>>, program derived addresses tag \o seed (the hash is taken to be *)
(* collision free, so the preimage stands for the address).                *)
(***************************************************************************)
EXTENDS Integers, Sequences, FiniteSets, TLC

\* ------------------------------------------------------------------ bounds
NumMints == 2
NumWallets == 2

\* ------------------------------------------------------- program constants
MAX_COLLECTION_SEED_LENGTH == 32
MAX_METADATA_NAME_LENGTH == 32
MAX_METADATA_SYMBOL_LENGTH == 10
MAX_METADATA_URI_LENGTH == 200
\* b"collection_authority"
COLLECTION_AUTHORITY_SEED ==
  <<99,111,108,108,101,99,116,105,111,110,95,97,117,116,104,111,114,105,116,121>>

\* The error kinds the program declares.
AutoVerifyError ==
  {"InvalidCollectionAuthority", "MetadataCreationFailed", "VerificationFailed",
   "Unauthorized", "InvalidCollectionSeed"}

\* --------------------------------------------------- limits of the callees
\* Solana runtime: longest seed accepted by find_program_address.
MAX_SEED_LEN == 32
\* Token-metadata program: bounds enforced by create_metadata_accounts_v3.
MAX_NAME_LENGTH == 32
MAX_SYMBOL_LENGTH == 10
MAX_URI_LENGTH == 200
MAX_BASIS_POINTS == 10000
\* Account allocations one instruction pays for: mint, holding account,
\* metadata record, edition record.
AllocationsPerCall == 4

\* ------------------------------------------------------------------ inputs
Str(n) == [i \in 1..n |-> 97]

Wallets == {<<0, i>> : i \in 1..NumWallets}
Mints == {<<2, i>> : i \in 1..NumMints}
\* Seeds by length class: a short one, one of the longest accepted length,
\* one a byte longer.
ValidSeeds == {<<71>>, Str(MAX_SEED_LEN)}
OneSeed == {<<71>>}
Seeds == ValidSeeds \cup {Str(MAX_SEED_LEN + 1)}

GoodData == [name |-> Str(7), symbol |-> Str(3), uri |-> Str(20),
             seller_fee_basis_points |-> 500]
BoundaryData == [name |-> Str(MAX_NAME_LENGTH), symbol |-> Str(MAX_SYMBOL_LENGTH),
                 uri |-> Str(MAX_URI_LENGTH),
                 seller_fee_basis_points |-> MAX_BASIS_POINTS]
LongNameData == [GoodData EXCEPT !.name = Str(MAX_NAME_LENGTH + 1)]
LongSymbolData == [GoodData EXCEPT !.symbol = Str(MAX_SYMBOL_LENGTH + 1)]
LongUriData == [GoodData EXCEPT !.uri = Str(MAX_URI_LENGTH + 1)]
BadFeeData == [GoodData EXCEPT !.seller_fee_basis_points = MAX_BASIS_POINTS + 1]

ValidMetadata == {GoodData}
MetadataInputs ==
  {BoundaryData, LongNameData, LongSymbolData, LongUriData, BadFeeData}

\* What the payer's balance covers: every allocation of a call, or fewer.
Funded == {AllocationsPerCall}
Budgets == 0..AllocationsPerCall

\* ------------------------------------------------------------------- state
VARIABLES
  mintAcc,    \* mint key -> [supply, decimals, mint_authority, freeze_authority]
  tokenAcc,   \* <<owner, mint>> -> [amount]
  metadata,   \* mint key -> metadata record of that mint
  edition,    \* mint key -> [max_supply]
  last        \* the last instruction processed: its arguments, its result
              \* and the cross-program invocations it made

accounts == <<mintAcc, tokenAcc, metadata, edition>>
vars == <<mintAcc, tokenAcc, metadata, edition, last>>

Empty == [x \in {} |-> x]
Put(f, k, v) == [x \in (DOMAIN f) \cup {k} |-> IF x = k THEN v ELSE f[x]]

NoKey == <<>>
NoData == [name |-> <<>>, symbol |-> <<>>, uri |-> <<>>, seller_fee_basis_points |-> 0]

\* --------------------------------------------------- authority derivation
\* Pubkey::find_program_address(&[b"collection_authority", seed], program_id)
\* as the `seeds = [...], bump` constraint evaluates it.  The bump stands for
\* the result of the descending search from 255; it depends on the seed only.
FindProgramAddress(seed) ==
  IF Len(seed) > MAX_SEED_LEN
  THEN [ok |-> FALSE, address |-> NoKey, bump |-> 0]
  ELSE [ok |-> TRUE, address |-> COLLECTION_AUTHORITY_SEED \o seed,
        bump |-> 255 - (Len(seed) % 2)]

\* Metadata / edition addresses are derived from the mint key alone, so the
\* tables are indexed by the mint key.
EditionPda(mint) == <<3>> \o mint

\* create_program_address for the signer seeds [tag, seed, [bump]] handed to
\* CpiContext::new_with_signer: the runtime accepts the derived address as a
\* signer of the CPI.  A bump other than the canonical one yields another
\* address.
CreateProgramAddress(seed, bump) ==
  IF bump = FindProgramAddress(seed).bump
  THEN FindProgramAddress(seed).address
  ELSE <<4, bump>> \o seed

\* ------------------------------------------------------------ transaction
\* The working copy of the ledger one instruction operates on.  budget is
\* the number of account allocations the payer's balance covers, log the
\* cross-program invocations made so far, raised the errors returned so far.
BeginTx(budget) ==
  [mint |-> mintAcc, token |-> tokenAcc, meta |-> metadata, ed |-> edition,
   budget |-> budget, err |-> "Ok", log |-> <<>>, raised |-> <<>>]

\* A constraint or a callee returns Err(e); `?` makes it the call's result.
Fail(tx, e) == [tx EXCEPT !.err = e, !.raised = Append(@, e)]

\* A cross-program invocation: the callee and the signers presented to it
\* (the transaction's signers, and with CpiContext::new_with_signer the
\* address of the signer seeds) are entered in the call's log.
Invoke(tx, callee, signers) ==
  [tx EXCEPT !.log = Append(@, [cpi |-> callee, signers |-> signers])]

\* Variant: the mint is initialised without the in-use check of
\* system create_account.
InitMintOverwrite(tx, key, authority) ==
  IF tx.err # "Ok" THEN tx
  ELSE IF tx.budget = 0 THEN Fail(tx, "InsufficientFunds")
  ELSE [tx EXCEPT
          !.mint = Put(@, key, [supply |-> 0, decimals |-> 0,
                                mint_authority |-> authority,
                                freeze_authority |-> authority]),
          !.budget = @ - 1]

\* Variant: the payer's balance is looked at before the in-use check.
InitMintFundsFirst(tx, key, authority) ==
  IF tx.err # "Ok" THEN tx
  ELSE IF tx.budget = 0 THEN Fail(tx, "InsufficientFunds")
  ELSE IF key \in DOMAIN tx.mint THEN Fail(tx, "AccountAlreadyInUse")
  ELSE [tx EXCEPT
          !.mint = Put(@, key, [supply |-> 0, decimals |-> 0,
                                mint_authority |-> authority,
                                freeze_authority |-> authority]),
          !.budget = @ - 1]

\* #[account(init, payer, mint::decimals = 0, mint::authority,
\*           mint::freeze_authority)]: system create_account + initialize_mint2
InitMint(tx, key, authority) ==
  IF tx.err # "Ok" THEN tx
  ELSE IF key \in DOMAIN tx.mint THEN Fail(tx, "AccountAlreadyInUse")
  ELSE IF tx.budget = 0 THEN Fail(tx, "InsufficientFunds")
  ELSE [tx EXCEPT
          !.mint = Put(@, key, [supply |-> 0, decimals |-> 0,
                                mint_authority |-> authority,
                                freeze_authority |-> authority]),
          !.budget = @ - 1]

\* #[account(init, payer, associated_token::mint, associated_token::authority)]
InitAssociatedToken(tx, owner, mint) ==
  IF tx.err # "Ok" THEN tx
  ELSE IF <<owner, mint>> \in DOMAIN tx.token THEN Fail(tx, "AccountAlreadyInUse")
  ELSE IF tx.budget = 0 THEN Fail(tx, "InsufficientFunds")
  ELSE [tx EXCEPT !.token = Put(@, <<owner, mint>>, [amount |-> 0]),
                  !.budget = @ - 1]

\* #[account(seeds = [b"collection_authority", collection_seed.as_bytes()], bump)]
SeedsConstraint(tx, seed) ==
  IF tx.err # "Ok" THEN tx
  ELSE IF ~FindProgramAddress(seed).ok THEN Fail(tx, "MaxSeedLengthExceeded")
  ELSE tx

\* pub collection_mint: Account<'info, Mint>
AccountMint(tx, key) ==
  IF tx.err # "Ok" THEN tx
  ELSE IF key \notin DOMAIN tx.mint THEN Fail(tx, "AccountNotInitialized")
  ELSE tx

\* Variant: the holding account is credited twice for one issued unit.
MintToCreditsTwice(tx, mint, owner, authority, signers, amount) ==
  IF tx.err # "Ok" THEN tx
  ELSE LET t == Invoke(tx, "mint_to", signers) IN
  IF mint \notin DOMAIN t.mint \/ <<owner, mint>> \notin DOMAIN t.token
    THEN Fail(t, "InvalidAccountData")
  ELSE IF t.mint[mint].mint_authority # authority THEN Fail(t, "OwnerMismatch")
  ELSE IF authority \notin signers THEN Fail(t, "MissingRequiredSignature")
  ELSE [t EXCEPT !.mint[mint].supply = @ + amount,
                  !.token[<<owner, mint>>].amount = @ + amount + amount]

\* token::mint_to(MintTo {mint, to, authority}, amount)
MintTo(tx, mint, owner, authority, signers, amount) ==
  IF tx.err # "Ok" THEN tx
  ELSE LET t == Invoke(tx, "mint_to", signers) IN
  IF mint \notin DOMAIN t.mint \/ <<owner, mint>> \notin DOMAIN t.token
    THEN Fail(t, "InvalidAccountData")
  ELSE IF t.mint[mint].mint_authority # authority THEN Fail(t, "OwnerMismatch")
  ELSE IF authority \notin signers THEN Fail(t, "MissingRequiredSignature")
  ELSE [t EXCEPT !.mint[mint].supply = @ + amount,
                  !.token[<<owner, mint>>].amount = @ + amount]

\* create_metadata_accounts_v3(CreateMetadataAccountsV3 {metadata, mint,
\*   mint_authority, payer, update_authority, ..}, data, is_mutable,
\*   update_authority_is_signer, collection_details = None)
CreateMetadataAccountsV3(tx, mint, mint_authority, update_authority, signers, data, creators, collection, is_mutable) ==
  IF tx.err # "Ok" THEN tx
  ELSE LET t == Invoke(tx, "create_metadata_accounts_v3", signers) IN
  IF mint \notin DOMAIN t.mint THEN Fail(t, "IncorrectOwner")
  ELSE IF mint \in DOMAIN t.meta THEN Fail(t, "AlreadyInitialized")
  ELSE IF t.mint[mint].mint_authority # mint_authority
    THEN Fail(t, "InvalidMintAuthority")
  ELSE IF mint_authority \notin signers THEN Fail(t, "MissingRequiredSignature")
  ELSE IF Len(data.name) > MAX_NAME_LENGTH THEN Fail(t, "NameTooLong")
  ELSE IF Len(data.symbol) > MAX_SYMBOL_LENGTH THEN Fail(t, "SymbolTooLong")
  ELSE IF Len(data.uri) > MAX_URI_LENGTH THEN Fail(t, "UriTooLong")
  ELSE IF data.seller_fee_basis_points > MAX_BASIS_POINTS
    THEN Fail(t, "InvalidBasisPoints")
  ELSE IF \E i \in 1..Len(creators) :
            /\ creators[i].verified
            /\ ~(creators[i].address = update_authority
                 /\ update_authority \in signers)
    THEN Fail(t, "CannotVerifyAnotherCreator")
  ELSE IF collection # <<>> /\ collection[1].verified
    THEN Fail(t, "CollectionCannotBeVerifiedInThisInstruction")
  ELSE IF t.budget = 0 THEN Fail(t, "InsufficientFunds")
  ELSE [t EXCEPT
          !.meta = Put(@, mint,
                       [update_authority |-> update_authority,
                        name |-> data.name, symbol |-> data.symbol,
                        uri |-> data.uri,
                        seller_fee_basis_points |-> data.seller_fee_basis_points,
                        creators |-> creators, collection |-> collection,
                        is_mutable |-> is_mutable]),
          !.budget = @ - 1]

\* create_master_edition_v3(CreateMasterEditionV3 {edition, mint,
\*   update_authority, mint_authority, payer, metadata, ..}, max_supply)
CreateMasterEditionV3(tx, mint, update_authority, mint_authority, signers, max_supply) ==
  IF tx.err # "Ok" THEN tx
  ELSE LET t == Invoke(tx, "create_master_edition_v3", signers) IN
  IF mint \notin DOMAIN t.meta THEN Fail(t, "IncorrectOwner")
  ELSE IF mint \in DOMAIN t.ed THEN Fail(t, "AlreadyInitialized")
  ELSE IF t.mint[mint].mint_authority # mint_authority
    THEN Fail(t, "InvalidMintAuthority")
  ELSE IF mint_authority \notin signers THEN Fail(t, "MissingRequiredSignature")
  ELSE IF t.meta[mint].update_authority # update_authority
    THEN Fail(t, "UpdateAuthorityIncorrect")
  ELSE IF update_authority \notin signers
    THEN Fail(t, "UpdateAuthorityIsNotSigner")
  ELSE IF t.mint[mint].supply # 1 \/ t.mint[mint].decimals # 0
    THEN Fail(t, "EditionsMustHaveExactlyOneToken")
  ELSE IF t.budget = 0 THEN Fail(t, "InsufficientFunds")
  ELSE [t EXCEPT
          !.ed = Put(@, mint, [max_supply |-> max_supply]),
          !.mint[mint].mint_authority = EditionPda(mint),
          !.mint[mint].freeze_authority = EditionPda(mint),
          !.budget = @ - 1]

\* Variant: the call returns Ok without writing the verified flag.
VerifyCollectionKeepsFlag(tx, mint, collection_authority, collection_mint, signers) ==
  IF tx.err # "Ok" THEN tx
  ELSE LET t == Invoke(tx, "verify_collection", signers) IN
  IF collection_authority \notin signers
    THEN Fail(t, "MissingRequiredSignature")
  ELSE IF mint \notin DOMAIN t.meta \/ collection_mint \notin DOMAIN t.meta
          \/ collection_mint \notin DOMAIN t.ed
    THEN Fail(t, "IncorrectOwner")
  ELSE IF t.meta[mint].collection = <<>>
          \/ t.meta[mint].collection[1].key # collection_mint
    THEN Fail(t, "CollectionNotFound")
  ELSE IF t.ed[collection_mint].max_supply # <<0>>
    THEN Fail(t, "CollectionMustBeAUniqueMasterEdition")
  ELSE IF t.meta[collection_mint].update_authority # collection_authority
    THEN Fail(t, "InvalidCollectionUpdateAuthority")
  ELSE t

\* Variant: the presented authority is not compared with the collection's
\* update authority.
VerifyCollectionAnyAuthority(tx, mint, collection_authority, collection_mint, signers) ==
  IF tx.err # "Ok" THEN tx
  ELSE LET t == Invoke(tx, "verify_collection", signers) IN
  IF collection_authority \notin signers
    THEN Fail(t, "MissingRequiredSignature")
  ELSE IF mint \notin DOMAIN t.meta \/ collection_mint \notin DOMAIN t.meta
          \/ collection_mint \notin DOMAIN t.ed
    THEN Fail(t, "IncorrectOwner")
  ELSE IF t.meta[mint].collection = <<>>
          \/ t.meta[mint].collection[1].key # collection_mint
    THEN Fail(t, "CollectionNotFound")
  ELSE IF t.ed[collection_mint].max_supply # <<0>>
    THEN Fail(t, "CollectionMustBeAUniqueMasterEdition")
  ELSE [t EXCEPT !.meta[mint].collection[1].verified = TRUE]

\* Variant: verification also counts the member on the collection's edition.
VerifyCollectionCountsMember(tx, mint, collection_authority, collection_mint, signers) ==
  IF tx.err # "Ok" THEN tx
  ELSE LET t == Invoke(tx, "verify_collection", signers) IN
  IF collection_authority \notin signers
    THEN Fail(t, "MissingRequiredSignature")
  ELSE IF mint \notin DOMAIN t.meta \/ collection_mint \notin DOMAIN t.meta
          \/ collection_mint \notin DOMAIN t.ed
    THEN Fail(t, "IncorrectOwner")
  ELSE IF t.meta[mint].collection = <<>>
          \/ t.meta[mint].collection[1].key # collection_mint
    THEN Fail(t, "CollectionNotFound")
  ELSE IF t.ed[collection_mint].max_supply # <<0>>
    THEN Fail(t, "CollectionMustBeAUniqueMasterEdition")
  ELSE IF t.meta[collection_mint].update_authority # collection_authority
    THEN Fail(t, "InvalidCollectionUpdateAuthority")
  ELSE [t EXCEPT !.meta[mint].collection[1].verified = TRUE,
                  !.ed[collection_mint].max_supply = <<1>>]

\* Variant: the flag is written without looking at the collection's records.
VerifyCollectionTrusting(tx, mint, collection_authority, collection_mint, signers) ==
  IF tx.err # "Ok" THEN tx
  ELSE LET t == Invoke(tx, "verify_collection", signers) IN
  IF collection_authority \notin signers
    THEN Fail(t, "MissingRequiredSignature")
  ELSE IF mint \notin DOMAIN t.meta THEN Fail(t, "IncorrectOwner")
  ELSE [t EXCEPT !.meta[mint].collection[1].verified = TRUE]

\* verify_collection(VerifyCollection {payer, metadata, collection_authority,
\*   collection_mint, collection_metadata, collection_master_edition}, None)
VerifyCollection(tx, mint, collection_authority, collection_mint, signers) ==
  IF tx.err # "Ok" THEN tx
  ELSE LET t == Invoke(tx, "verify_collection", signers) IN
  IF collection_authority \notin signers
    THEN Fail(t, "MissingRequiredSignature")
  ELSE IF mint \notin DOMAIN t.meta \/ collection_mint \notin DOMAIN t.meta
          \/ collection_mint \notin DOMAIN t.ed
    THEN Fail(t, "IncorrectOwner")
  ELSE IF t.meta[mint].collection = <<>>
          \/ t.meta[mint].collection[1].key # collection_mint
    THEN Fail(t, "CollectionNotFound")
  ELSE IF t.ed[collection_mint].max_supply # <<0>>
    THEN Fail(t, "CollectionMustBeAUniqueMasterEdition")
  ELSE IF t.meta[collection_mint].update_authority # collection_authority
    THEN Fail(t, "InvalidCollectionUpdateAuthority")
  ELSE [t EXCEPT !.meta[mint].collection[1].verified = TRUE]

\* ---------------------------------------------------------------- handlers
\* #[derive(Accounts)] struct InitializeCollection: constraints in the order
\* Anchor evaluates them (init fields while loading, seeds afterwards).
InitializeCollection(tx, admin, collection_seed, collection_mint) ==
  SeedsConstraint(
    InitAssociatedToken(InitMint(tx, collection_mint, admin),
                        admin, collection_mint),
    collection_seed)

\* Variant: the administrator is named as update authority of the records.
initialize_collection_admin_authority(tx, admin, collection_seed, collection_mint, collection_metadata) ==
  LET tx_signers == {admin, collection_mint}
      creators == <<[address |-> admin, verified |-> FALSE, share |-> 100]>>
      t1 == MintTo(tx, collection_mint, admin, admin, tx_signers, 1)
      t2 == CreateMetadataAccountsV3(t1, collection_mint, admin, admin,
                                     tx_signers, collection_metadata, creators,
                                     <<>>, TRUE)
  IN  CreateMasterEditionV3(t2, collection_mint, admin, admin, tx_signers, <<0>>)

\* Variant: the registration CPI is made with CpiContext::new, without the
\* authority's signer seeds.
initialize_collection_plain_context(tx, admin, collection_seed, collection_mint, collection_metadata) ==
  LET bump == FindProgramAddress(collection_seed).bump
      collection_authority_pda == FindProgramAddress(collection_seed).address
      tx_signers == {admin, collection_mint}
      with_signer == tx_signers \cup {CreateProgramAddress(collection_seed, bump)}
      creators == <<[address |-> admin, verified |-> FALSE, share |-> 100]>>
      t1 == MintTo(tx, collection_mint, admin, admin, tx_signers, 1)
      t2 == CreateMetadataAccountsV3(t1, collection_mint, admin,
                                     collection_authority_pda, tx_signers,
                                     collection_metadata, creators, <<>>, TRUE)
  IN  CreateMasterEditionV3(t2, collection_mint, collection_authority_pda,
                            admin, with_signer, <<0>>)

\* pub fn initialize_collection(ctx, collection_seed, collection_metadata)
initialize_collection(tx, admin, collection_seed, collection_mint, collection_metadata) ==
  LET bump == FindProgramAddress(collection_seed).bump
      collection_authority_pda == FindProgramAddress(collection_seed).address
      tx_signers == {admin, collection_mint}
      with_signer == tx_signers \cup {CreateProgramAddress(collection_seed, bump)}
      creators == <<[address |-> admin, verified |-> FALSE, share |-> 100]>>
      t1 == MintTo(tx, collection_mint, admin, admin, tx_signers, 1)
      t2 == CreateMetadataAccountsV3(t1, collection_mint, admin,
                                     collection_authority_pda, with_signer,
                                     collection_metadata, creators, <<>>, TRUE)
  IN  CreateMasterEditionV3(t2, collection_mint, collection_authority_pda,
                            admin, with_signer, <<0>>)

\* #[derive(Accounts)] struct MintAndVerifyNft
MintAndVerifyNft(tx, user, collection_seed, nft_mint, collection_mint) ==
  SeedsConstraint(
    AccountMint(
      InitAssociatedToken(InitMint(tx, nft_mint, user), user, nft_mint),
      collection_mint),
    collection_seed)

\* Variant: the handler returns after sealing, without the verification CPI.
mint_and_verify_nft_unverified(tx, user, collection_seed, nft_mint, collection_mint, nft_metadata) ==
  LET tx_signers == {user, nft_mint}
      creators == <<[address |-> user, verified |-> TRUE, share |-> 100]>>
      collection == <<[verified |-> FALSE, key |-> collection_mint]>>
      t1 == MintTo(tx, nft_mint, user, user, tx_signers, 1)
      t2 == CreateMetadataAccountsV3(t1, nft_mint, user, user, tx_signers,
                                     nft_metadata, creators, collection, TRUE)
  IN  CreateMasterEditionV3(t2, nft_mint, user, user, tx_signers, <<0>>)

\* Variant: only the wallet that created the collection may issue into it.
mint_and_verify_nft_admin_only(tx, user, collection_seed, nft_mint, collection_mint, nft_metadata) ==
  LET bump == FindProgramAddress(collection_seed).bump
      collection_authority_pda == FindProgramAddress(collection_seed).address
      tx_signers == {user, nft_mint}
      with_signer == tx_signers \cup {CreateProgramAddress(collection_seed, bump)}
      creators == <<[address |-> user, verified |-> TRUE, share |-> 100]>>
      collection == <<[verified |-> FALSE, key |-> collection_mint]>>
      t0 == IF /\ tx.err = "Ok"
               /\ collection_mint \in DOMAIN tx.meta
               /\ tx.meta[collection_mint].creators[1].address # user
            THEN Fail(tx, "Unauthorized") ELSE tx
      t1 == MintTo(t0, nft_mint, user, user, tx_signers, 1)
      t2 == CreateMetadataAccountsV3(t1, nft_mint, user, user, tx_signers,
                                     nft_metadata, creators, collection, TRUE)
      t3 == CreateMasterEditionV3(t2, nft_mint, user, user, tx_signers, <<0>>)
  IN  VerifyCollection(t3, nft_mint, collection_authority_pda, collection_mint,
                       with_signer)

\* Variant: the result of the registration CPI is dropped instead of being
\* returned with `?`, and the handler goes on.
mint_and_verify_nft_drops_result(tx, user, collection_seed, nft_mint, collection_mint, nft_metadata) ==
  LET bump == FindProgramAddress(collection_seed).bump
      collection_authority_pda == FindProgramAddress(collection_seed).address
      tx_signers == {user, nft_mint}
      with_signer == tx_signers \cup {CreateProgramAddress(collection_seed, bump)}
      creators == <<[address |-> user, verified |-> TRUE, share |-> 100]>>
      collection == <<[verified |-> FALSE, key |-> collection_mint]>>
      t1 == MintTo(tx, nft_mint, user, user, tx_signers, 1)
      t2 == CreateMetadataAccountsV3(t1, nft_mint, user, user, tx_signers,
                                     nft_metadata, creators, collection, TRUE)
      t2c == IF t1.err = "Ok" THEN [t2 EXCEPT !.err = "Ok"] ELSE t2
      t3 == CreateMasterEditionV3(t2c, nft_mint, user, user, tx_signers, <<0>>)
  IN  VerifyCollection(t3, nft_mint, collection_authority_pda, collection_mint,
                       with_signer)

\* pub fn mint_and_verify_nft(ctx, collection_seed, nft_metadata)
mint_and_verify_nft(tx, user, collection_seed, nft_mint, collection_mint, nft_metadata) ==
  LET bump == FindProgramAddress(collection_seed).bump
      collection_authority_pda == FindProgramAddress(collection_seed).address
      tx_signers == {user, nft_mint}
      with_signer == tx_signers \cup {CreateProgramAddress(collection_seed, bump)}
      creators == <<[address |-> user, verified |-> TRUE, share |-> 100]>>
      collection == <<[verified |-> FALSE, key |-> collection_mint]>>
      t1 == MintTo(tx, nft_mint, user, user, tx_signers, 1)
      t2 == CreateMetadataAccountsV3(t1, nft_mint, user, user, tx_signers,
                                     nft_metadata, creators, collection, TRUE)
      t3 == CreateMasterEditionV3(t2, nft_mint, user, user, tx_signers, <<0>>)
  IN  VerifyCollection(t3, nft_mint, collection_authority_pda, collection_mint,
                       with_signer)

\* #[derive(Accounts)] struct UpdateCollectionAuthority
UpdateCollectionAuthority(tx, admin, collection_seed) ==
  SeedsConstraint(tx, collection_seed)

\* Variant: the stub hands every record of the seed's authority over to
\* new_authority.
update_collection_authority_rotates(tx, collection_seed, new_authority) ==
  IF tx.err # "Ok" THEN tx
  ELSE [tx EXCEPT !.meta =
          [m \in DOMAIN @ |->
             IF @[m].update_authority = FindProgramAddress(collection_seed).address
             THEN [@[m] EXCEPT !.update_authority = new_authority]
             ELSE @[m]]]

\* Variant: the stub withdraws the attestation of every item in a collection
\* of the seed's authority.
update_collection_authority_unverifies(tx, collection_seed, new_authority) ==
  IF tx.err # "Ok" THEN tx
  ELSE [tx EXCEPT !.meta =
          [m \in DOMAIN @ |->
             IF /\ @[m].collection # <<>>
                /\ @[m].collection[1].key \in DOMAIN @
                /\ @[@[m].collection[1].key].update_authority =
                     FindProgramAddress(collection_seed).address
             THEN [@[m] EXCEPT !.collection[1].verified = FALSE]
             ELSE @[m]]]

\* pub fn update_collection_authority(ctx, collection_seed, new_authority)
update_collection_authority(tx, collection_seed, new_authority) == tx

\* Variant: the writes made before the failing step are kept.
CommitPartial(tx) ==
  /\ mintAcc' = tx.mint
  /\ tokenAcc' = tx.token
  /\ metadata' = tx.meta
  /\ edition' = tx.ed

\* The runtime keeps the instruction's writes only when it returned Ok.
Commit(tx) ==
  IF tx.err = "Ok"
  THEN /\ mintAcc' = tx.mint
       /\ tokenAcc' = tx.token
       /\ metadata' = tx.meta
       /\ edition' = tx.ed
  ELSE UNCHANGED accounts

\* ----------------------------------------------------------------- actions
Init ==
  /\ mintAcc = Empty
  /\ tokenAcc = Empty
  /\ metadata = Empty
  /\ edition = Empty
  /\ last = [op |-> "none", err |-> "Ok", seed |-> <<>>,
             mint |-> NoKey, collection_mint |-> NoKey, data |-> NoData,
             log |-> <<>>, raised |-> <<>>]

CallInitializeCollection(seeds, inputs, budgets) ==
  \E admin \in Wallets, seed \in seeds, m \in Mints, cm \in inputs,
     budget \in budgets :
    LET tx == initialize_collection(
                InitializeCollection(BeginTx(budget), admin, seed, m),
                admin, seed, m, cm)
    IN  /\ Commit(tx)
        /\ last' = [op |-> "initialize_collection", err |-> tx.err,
                    seed |-> seed, mint |-> m,
                    collection_mint |-> NoKey, data |-> cm,
                    log |-> tx.log, raised |-> tx.raised]

CallMintAndVerifyNft(seeds, inputs, budgets) ==
  \E user \in Wallets, seed \in seeds, m \in Mints, c \in Mints,
     nm \in inputs, budget \in budgets :
    LET tx == mint_and_verify_nft(
                MintAndVerifyNft(BeginTx(budget), user, seed, m, c),
                user, seed, m, c, nm)
    IN  /\ Commit(tx)
        /\ last' = [op |-> "mint_and_verify_nft", err |-> tx.err,
                    seed |-> seed, mint |-> m,
                    collection_mint |-> c, data |-> nm,
                    log |-> tx.log, raised |-> tx.raised]

CallUpdateCollectionAuthority(seeds) ==
  \E admin \in Wallets, seed \in seeds, new_authority \in Wallets :
    LET tx == update_collection_authority(
                UpdateCollectionAuthority(BeginTx(0), admin, seed),
                seed, new_authority)
    IN  /\ Commit(tx)
        /\ last' = [op |-> "update_collection_authority", err |-> tx.err,
                    seed |-> seed, mint |-> NoKey,
                    collection_mint |-> NoKey, data |-> NoData,
                    log |-> tx.log, raised |-> tx.raised]

\* Every call the payer can fund.
Next ==
  \/ CallInitializeCollection(Seeds, ValidMetadata, Funded)
  \/ CallMintAndVerifyNft(Seeds, ValidMetadata, Funded)
  \/ CallUpdateCollectionAuthority(Seeds)

Spec == Init /\ [][Next]_vars

\* Calls under one collection seed whose payer may run out of funds at any
\* allocation.
NextFunds ==
  \/ CallInitializeCollection(OneSeed, ValidMetadata, Budgets)
  \/ CallMintAndVerifyNft(OneSeed, ValidMetadata, Budgets)
  \/ CallUpdateCollectionAuthority(OneSeed)

SpecFunds == Init /\ [][NextFunds]_vars

\* Funded calls with valid seeds and every shape of metadata input.
NextMetadata ==
  \/ CallInitializeCollection(ValidSeeds, MetadataInputs, Funded)
  \/ CallMintAndVerifyNft(ValidSeeds, MetadataInputs, Funded)
  \/ CallUpdateCollectionAuthority(ValidSeeds)

SpecMetadata == Init /\ [][NextMetadata]_vars

\* ------------------------------------------------------------- properties
DerivedAuthority(seed) == FindProgramAddress(seed).address

\* A collection record: a metadata record without a collection reference.
IsCollection(m) == m \in DOMAIN metadata /\ metadata[m].collection = <<>>
\* An item record: a metadata record that references a collection.
IsItem(m) == m \in DOMAIN metadata /\ metadata[m].collection # <<>>
IsVerified(m) == IsItem(m) /\ metadata[m].collection[1].verified
IsVerifiedNext(m) ==
  /\ m \in DOMAIN metadata'
  /\ metadata'[m].collection # <<>>
  /\ metadata'[m].collection[1].verified

MintCall == "mint_and_verify_nft"
InitCall == "initialize_collection"
UpdateCall == "update_collection_authority"

\* C1: a mint_and_verify_nft call that completes with seed S and collection
\* mint C leaves the new item's collection reference {key = C, verified = true}.
C1_MintedItemIsVerified ==
  (last.op = MintCall /\ last.err = "Ok") =>
    /\ last.mint \in DOMAIN metadata
    /\ metadata[last.mint].collection =
         <<[verified |-> TRUE, key |-> last.collection_mint]>>

C1_Witness ==
  /\ last.op = MintCall
  /\ last.err = "Ok"
  /\ IsCollection(last.collection_mint)
  /\ metadata[last.collection_mint].update_authority = DerivedAuthority(last.seed)
  /\ IsVerified(last.mint)

\* C2: in every committed state every asset unit that exists has a holding
\* record with its single unit, a metadata record and a sealed edition
\* record, every record belongs to an existing asset unit, and every item's
\* collection reference is verified.
C2_NoPartialItem ==
  /\ DOMAIN metadata = DOMAIN mintAcc
  /\ DOMAIN edition = DOMAIN mintAcc
  /\ \A k \in DOMAIN tokenAcc : k[2] \in DOMAIN mintAcc
  /\ \A m \in DOMAIN mintAcc :
       /\ \E w \in Wallets : /\ <<w, m>> \in DOMAIN tokenAcc
                             /\ tokenAcc[<<w, m>>].amount = 1
       /\ IsItem(m) => IsVerified(m)

C2_Witness ==
  \E m \in DOMAIN mintAcc, w \in Wallets :
    /\ IsVerified(m)
    /\ m \in DOMAIN edition
    /\ <<w, m>> \in DOMAIN tokenAcc
    /\ tokenAcc[<<w, m>>].amount = 1
    /\ mintAcc[m].supply = 1
    /\ last.op = MintCall
    /\ last.mint = m

\* C3: whenever a step makes an item's verified flag true, the step is the
\* mint_and_verify_nft call for that item, the authority it presented is
\* derive("collection_authority", seed), and that address is the update
\* authority stored in the referenced collection's metadata record.
C3_OnlyDerivedAuthorityVerifies ==
  [][\A m \in Mints :
       (IsVerifiedNext(m) /\ ~IsVerified(m)) =>
         /\ last'.op = MintCall
         /\ last'.mint = m
         /\ FindProgramAddress(last'.seed).ok
         /\ metadata'[m].collection[1].key = last'.collection_mint
         /\ last'.collection_mint \in DOMAIN metadata'
         /\ metadata'[last'.collection_mint].update_authority =
              DerivedAuthority(last'.seed)]_vars

C3_Witness ==
  \E m \in DOMAIN metadata :
    /\ IsVerified(m)
    /\ last.op = MintCall
    /\ last.mint = m
    /\ metadata[metadata[m].collection[1].key].update_authority =
         COLLECTION_AUTHORITY_SEED \o last.seed

C5_MismatchIsVerificationFailed ==
  (/\ last.op = MintCall
   /\ last.seed \in ValidSeeds
   /\ last.data = GoodData
   /\ last.mint \notin DOMAIN mintAcc
   /\ IsCollection(last.collection_mint)
   /\ metadata[last.collection_mint].update_authority # DerivedAuthority(last.seed))
  => last.err = "VerificationFailed"

\* C6: a mint_and_verify_nft call that fails, at whatever step, leaves the
\* committed state as it was before the call.
C6_FailedMintChangesNothing ==
  [][(last'.op = MintCall /\ last'.err # "Ok") => UNCHANGED accounts]_vars

C6_Witness ==
  /\ last.op = MintCall
  /\ last.err = "InvalidCollectionUpdateAuthority"
  /\ last.mint \notin DOMAIN mintAcc
  /\ last.mint \notin DOMAIN metadata
  /\ \A k \in DOMAIN tokenAcc : k[2] # last.mint

\* C7: a mint_and_verify_nft call, successful or failing, leaves every
\* collection's name, symbol, update authority and sealed maximum supply
\* as they were.
C7_MintKeepsCollectionRecord ==
  [][last'.op = MintCall =>
       \A c \in DOMAIN metadata :
         metadata[c].collection = <<>> =>
           /\ c \in DOMAIN metadata'
           /\ c \in DOMAIN edition'
           /\ metadata'[c].name = metadata[c].name
           /\ metadata'[c].symbol = metadata[c].symbol
           /\ metadata'[c].update_authority = metadata[c].update_authority
           /\ edition'[c].max_supply = edition[c].max_supply]_vars

C7_Witness ==
  /\ last.op = MintCall
  /\ last.err = "Ok"
  /\ IsCollection(last.collection_mint)
  /\ edition[last.collection_mint].max_supply = <<0>>

\* C8: update_collection_authority changes no account: every mint, holding
\* record, metadata record (update authority included) and edition record is
\* the same after the call as before.
C8_UpdateChangesNothing ==
  [][last'.op = UpdateCall => UNCHANGED accounts]_vars

C8_Witness ==
  /\ last.op = UpdateCall
  /\ last.err = "Ok"
  /\ \E c \in DOMAIN metadata :
       /\ IsCollection(c)
       /\ metadata[c].update_authority = DerivedAuthority(last.seed)
  /\ \E m \in DOMAIN metadata : IsVerified(m)

\* C9: every operation called with a collection seed longer than 32 bytes
\* fails with error kind InvalidCollectionSeed.
C9_LongSeedIsInvalidCollectionSeed ==
  (last.op # "none" /\ Len(last.seed) > MAX_COLLECTION_SEED_LENGTH)
  => last.err = "InvalidCollectionSeed"

\* C10: initialize_collection and mint_and_verify_nft called with metadata
\* that violates a size bound fail with error kind MetadataCreationFailed.
C10_OversizedIsMetadataCreationFailed ==
  (/\ last.op \in {InitCall, MintCall}
   /\ \/ Len(last.data.name) > MAX_METADATA_NAME_LENGTH
      \/ Len(last.data.symbol) > MAX_METADATA_SYMBOL_LENGTH
      \/ Len(last.data.uri) > MAX_METADATA_URI_LENGTH
      \/ last.data.seller_fee_basis_points > MAX_BASIS_POINTS)
  => last.err = "MetadataCreationFailed"

\* C11: a mint_and_verify_nft call that names a collection mint for which no
\* initialize_collection has completed does not succeed, and every item
\* record references a collection that exists.
C11_BootstrapPrecedesIssuance ==
  /\ \A m \in DOMAIN metadata : IsItem(m) => IsCollection(metadata[m].collection[1].key)
  /\ (last.op = MintCall /\ ~IsCollection(last.collection_mint)) => last.err # "Ok"

C11_Witness ==
  /\ last.op = MintCall
  /\ last.err = "AccountNotInitialized"
  /\ last.collection_mint \notin DOMAIN mintAcc
  /\ last.mint \notin DOMAIN mintAcc
  /\ last.log = <<>>

\* C12: a mint_and_verify_nft call whose item mint is already in use fails
\* at the creation of the mint account with "already in use", whatever the
\* payer's balance, and changes no account.
C12_DuplicateItemFailsFirst ==
  [][(last'.op = MintCall /\ last'.mint \in DOMAIN mintAcc)
     => (last'.err = "AccountAlreadyInUse" /\ UNCHANGED accounts)]_vars

C12_Witness ==
  /\ last.op = MintCall
  /\ last.err = "AccountAlreadyInUse"
  /\ IsVerified(last.mint)

\* The wallet holding the unit of mint m.
Holders(m) == {w \in Wallets : <<w, m>> \in DOMAIN tokenAcc}

\* C14: every collection record has the address derived from a seed as
\* update authority (for the collection just initialised: from the seed of
\* that call) and never a wallet, the creator list [{administrator,
\* verified = false, share = 100}] with the administrator the wallet that
\* holds the unit, no collection reference, and an edition with maximum
\* supply 0.
C14_CollectionRecordShape ==
  /\ \A c \in DOMAIN metadata :
       IsCollection(c) =>
         /\ \E seed \in ValidSeeds :
              metadata[c].update_authority = COLLECTION_AUTHORITY_SEED \o seed
         /\ metadata[c].update_authority \notin Wallets
         /\ \E admin \in Holders(c) :
              metadata[c].creators =
                <<[address |-> admin, verified |-> FALSE, share |-> 100]>>
         /\ c \in DOMAIN edition
         /\ edition[c].max_supply = <<0>>
  /\ (last.op = InitCall /\ last.err = "Ok") =>
       /\ IsCollection(last.mint)
       /\ metadata[last.mint].update_authority =
            COLLECTION_AUTHORITY_SEED \o last.seed

C14_Witness ==
  /\ last.op = InitCall
  /\ last.err = "Ok"
  /\ IsCollection(last.mint)
  /\ metadata[last.mint].creators[1].address \in Holders(last.mint)

\* C17: every mint, of a collection or of an item, has supply exactly 1, held
\* as amount 1 in one holding record, that of the wallet in its creator list
\* (the administrator or the issuing user), and no step changes the supply
\* of an existing mint.
C17_SupplyIsOne ==
  [][/\ \A m \in DOMAIN mintAcc' :
          /\ mintAcc'[m].supply = 1
          /\ \E w \in Wallets :
               /\ {k \in DOMAIN tokenAcc' : k[2] = m} = {<<w, m>>}
               /\ tokenAcc'[<<w, m>>].amount = 1
               /\ metadata'[m].creators[1].address = w
     /\ \A m \in DOMAIN mintAcc :
          /\ m \in DOMAIN mintAcc'
          /\ mintAcc'[m].supply = mintAcc[m].supply]_vars

C17_Witness ==
  \E c, m \in DOMAIN mintAcc :
    /\ IsCollection(c)
    /\ IsItem(m)
    /\ mintAcc[c].supply = 1
    /\ mintAcc[m].supply = 1
    /\ Holders(c) # Holders(m)

\* C18: an item whose collection reference is verified keeps verified = true
\* and the same collection key in every later state.
C18_VerifiedIsStable ==
  [][\A m \in Mints :
       IsVerified(m) =>
         /\ IsVerifiedNext(m)
         /\ metadata'[m].collection[1].key = metadata[m].collection[1].key]_vars

C18_Witness ==
  /\ \E m \in DOMAIN metadata : IsVerified(m)
  /\ last.op = UpdateCall
  /\ last.err = "Ok"
  /\ \E m \in DOMAIN metadata :
       /\ IsVerified(m)
       /\ metadata[metadata[m].collection[1].key].update_authority =
            DerivedAuthority(last.seed)

\* C19: a funded mint_and_verify_nft call with valid metadata, a fresh item
\* mint, an initialised collection and the seed of that collection succeeds
\* and leaves a verified item, whoever the signing user is.
C19_AnyUserMayIssue ==
  [][(/\ last'.op = MintCall
      /\ last'.mint \notin DOMAIN mintAcc
      /\ IsCollection(last'.collection_mint)
      /\ FindProgramAddress(last'.seed).ok
      /\ metadata[last'.collection_mint].update_authority =
           DerivedAuthority(last'.seed))
     => (last'.err = "Ok" /\ IsVerifiedNext(last'.mint))]_vars

C19_Witness ==
  /\ last.op = MintCall
  /\ last.err = "Ok"
  /\ IsVerified(last.mint)
  /\ metadata[last.mint].creators[1].address #
       metadata[last.collection_mint].creators[1].address

\* The cross-program invocations of a handler, in the order of its body.
Pipeline(op) ==
  IF op = InitCall
    THEN <<"mint_to", "create_metadata_accounts_v3", "create_master_edition_v3">>
  ELSE IF op = MintCall
    THEN <<"mint_to", "create_metadata_accounts_v3", "create_master_edition_v3",
           "verify_collection">>
  ELSE <<>>

Invoked == [i \in 1..Len(last.log) |-> last.log[i].cpi]

\* The errors of the account constraints and of each callee.
ConstraintErrors ==
  {"AccountAlreadyInUse", "InsufficientFunds", "AccountNotInitialized",
   "MaxSeedLengthExceeded"}
CalleeErrors(callee) ==
  IF callee = "mint_to"
    THEN {"InvalidAccountData", "OwnerMismatch", "MissingRequiredSignature"}
  ELSE IF callee = "create_metadata_accounts_v3"
    THEN {"IncorrectOwner", "AlreadyInitialized", "InvalidMintAuthority",
          "MissingRequiredSignature", "NameTooLong", "SymbolTooLong",
          "UriTooLong", "InvalidBasisPoints", "CannotVerifyAnotherCreator",
          "CollectionCannotBeVerifiedInThisInstruction", "InsufficientFunds"}
  ELSE IF callee = "create_master_edition_v3"
    THEN {"IncorrectOwner", "AlreadyInitialized", "InvalidMintAuthority",
          "MissingRequiredSignature", "UpdateAuthorityIncorrect",
          "UpdateAuthorityIsNotSigner", "EditionsMustHaveExactlyOneToken",
          "InsufficientFunds"}
  ELSE {"MissingRequiredSignature", "IncorrectOwner", "CollectionNotFound",
        "CollectionMustBeAUniqueMasterEdition",
        "InvalidCollectionUpdateAuthority"}

\* C15 as stated: in the registration call of initialize_collection a wallet
\* (the administrator) is presented as signer and the derived authority is
\* not.
C15_RegistrationSignedByAdminOnly ==
  \A i \in 1..Len(last.log) :
    (last.op = InitCall /\ last.log[i].cpi = "create_metadata_accounts_v3") =>
      /\ last.log[i].signers \cap Wallets # {}
      /\ DerivedAuthority(last.seed) \notin last.log[i].signers

\* C15 amended: in the registration call of initialize_collection the
\* signers presented are the administrator, the new mint's key and the
\* derived authority, which is the update authority named in the call.
C15_RegistrationSignedByAdminAndAuthority ==
  \A i \in 1..Len(last.log) :
    (last.op = InitCall /\ last.log[i].cpi = "create_metadata_accounts_v3") =>
      /\ \E admin \in Wallets :
           /\ last.log[i].signers =
                {admin, last.mint, DerivedAuthority(last.seed)}
           /\ last.err = "Ok" => admin \in Holders(last.mint)
      /\ last.err = "Ok" =>
           metadata[last.mint].update_authority \in last.log[i].signers

C15_Witness ==
  /\ last.op = InitCall
  /\ last.err = "Ok"
  /\ Len(last.log) = 3
  /\ last.log[2].cpi = "create_metadata_accounts_v3"
  /\ COLLECTION_AUTHORITY_SEED \o last.seed \in last.log[2].signers

\* C16: a call returns at most one error, the first one raised; the
\* invocations it made are an initial part of the handler's pipeline, the
\* whole pipeline when the call succeeded; a failed call's error is an
\* error of the last invocation made, or of an account constraint when none
\* was made.
C16_FirstFailureIsReturned ==
  last.op \in {InitCall, MintCall} =>
    /\ last.raised = IF last.err = "Ok" THEN <<>> ELSE <<last.err>>
    /\ Len(Invoked) <= Len(Pipeline(last.op))
    /\ Invoked = SubSeq(Pipeline(last.op), 1, Len(Invoked))
    /\ last.err = "Ok" => Invoked = Pipeline(last.op)
    /\ (last.err # "Ok" /\ Invoked = <<>>) => last.err \in ConstraintErrors
    /\ (last.err # "Ok" /\ Invoked # <<>>) =>
         last.err \in CalleeErrors(Invoked[Len(Invoked)])

C16_Witness ==
  /\ last.op = MintCall
  /\ last.err = "InsufficientFunds"
  /\ Invoked = <<"mint_to", "create_metadata_accounts_v3">>
  /\ \/ last.collection_mint \notin DOMAIN metadata
     \/ metadata[last.collection_mint].update_authority
          # DerivedAuthority(last.seed)
====
